---- MODULE Spec2Model ----
(***************************************************************************)
(* Model of app/src/c/converse/segments/segment_layer.c: the SegmentLayer  *)
(* that wraps one conversation entry in one of several child views chosen  *)
(* by a type tag, with an optional "Bobby" label on top.                   *)
(*                                                                         *)
(* The toolkit (layers, text layers), the conversation data model and the  *)
(* concrete child views live outside this file; they are modelled by the   *)
(* interface segment_layer.c consumes from them.                           *)
(***************************************************************************)
EXTENDS Integers, Sequences, FiniteSets, TLC

(* ------------------------------ bounds --------------------------------- *)

\* largest coordinate of a rect origin
MaxOrigin == 1
\* entry content sizes 1..MaxContent (drives a child view's natural height)
MaxContent == 2
\* width and height of the rect handed to segment_layer_create
RectW == 180
RectH == 30
\* a frame read through a handle no constructor produced yields sizes in 0..MaxGarbage
MaxGarbage == 1

(* --------------------------- program constants ------------------------- *)

NAME_HEIGHT == 20

\* the container's rows: the single-segment specification uses the first only
Slots == {1, 2}
FirstSlot == {1}

(* ------------------------------ geometry ------------------------------- *)

GPoint(x, y) == [x |-> x, y |-> y]
GSize(w, h) == [w |-> w, h |-> h]
GRect(x, y, w, h) == [origin |-> GPoint(x, y), size |-> GSize(w, h)]

Origins == {GPoint(a, b) : a \in 0..MaxOrigin, b \in 0..MaxOrigin}
RectSet == {GRect(o.x, o.y, RectW, RectH) : o \in Origins}
RectAtZero == {GRect(0, 0, RectW, RectH)}

(* ------------------------- conversation entries ------------------------ *)

\* entry types of the data model, plus one value this build does not know
EntryTypes ==
  {"EntryTypeDeleted", "EntryTypePrompt", "EntryTypeResponse", "EntryTypeThought",
   "EntryTypeError", "EntryTypeAction", "EntryTypeWidget", "EntryTypeUnknown"}

\* widget sub-types of the data model, plus one value this build does not know
WidgetTypes ==
  {"ConversationWidgetTypeWeatherSingleDay", "ConversationWidgetTypeWeatherCurrent",
   "ConversationWidgetTypeWeatherMultiDay", "ConversationWidgetTypeTimer",
   "ConversationWidgetTypeNumber", "ConversationWidgetTypeMap",
   "ConversationWidgetTypeUnknown"}

NoWidget == "NoWidget"

\* the (type, widget sub-type) pairs an entry takes: a widget descriptor only on a Widget entry
EntryKinds ==
  {[type |-> t, widget |-> NoWidget] : t \in EntryTypes \ {"EntryTypeWidget"}}
  \cup {[type |-> "EntryTypeWidget", widget |-> w] : w \in WidgetTypes}

EntrySet ==
  {[type |-> k.type, widget |-> k.widget, content |-> c] :
      k \in EntryKinds, c \in 1..MaxContent}

conversation_entry_get_type(entry) == entry.type
conversation_entry_get_widget(entry) == [type |-> entry.widget]

VARIABLES
  featureMaps,   \* ENABLE_FEATURE_MAPS of this build
  entries,       \* the conversation entry behind each slot
  seg,           \* the SegmentLayer of each slot: frame, children, SegmentLayerData
  views,         \* the child view of each slot (message, info or widget), when live
  labels,        \* the assistant label TextLayer of each slot, when live
  faults,        \* toolkit misuse seen so far
  destroyLog,    \* what the latest segment_layer_destroy of each slot did, in order
  lastOp         \* the latest thing that happened to the segment of each slot

vars == <<featureMaps, entries, seg, views, labels, faults, destroyLog, lastOp>>

NoSeg == [live |-> FALSE]
NoView == [live |-> FALSE]
NoLabel == [live |-> FALSE]

\* the two values of the union member `layer`: set by a child constructor, or
\* left as blayer_create_with_data handed it over (no constructor wrote it)
ChildHandle == "ChildHandle"
Unset == "Unset"

(* ----------------------- prv_get_segment_type -------------------------- *)

\* a case of the switch that returns `st`
PrvHit(st) == [type |-> st, warning |-> FALSE]

\* a fall-through that returns SegmentTypeInfo (mutant of PrvFallThrough)
PrvFallThrough_Info == [type |-> "SegmentTypeInfo", warning |-> TRUE]

\* what follows the switch: the BOBBY_LOG warning, then return SegmentTypeNone
PrvFallThrough == [type |-> "SegmentTypeNone", warning |-> TRUE]

\* the inner switch with the Timer case returning the Number variant
\* (mutant of PrvWidgetSwitch)
PrvWidgetSwitch_TimerAsNumber(w) ==
  CASE w = "ConversationWidgetTypeWeatherSingleDay" ->
         PrvHit("SegmentTypeWeatherSingleDayWidget")
    [] w = "ConversationWidgetTypeWeatherCurrent" ->
         PrvHit("SegmentTypeWeatherCurrentWidget")
    [] w = "ConversationWidgetTypeWeatherMultiDay" ->
         PrvHit("SegmentTypeWeatherMultiDayWidget")
    [] w = "ConversationWidgetTypeTimer" -> PrvHit("SegmentTypeNumberWidget")
    [] w = "ConversationWidgetTypeNumber" -> PrvHit("SegmentTypeNumberWidget")
    [] w = "ConversationWidgetTypeMap" /\ featureMaps -> PrvHit("SegmentTypeMapWidget")
    [] OTHER -> PrvFallThrough

\* the inner switch, on the widget's sub-type; no case matching, control
\* breaks out of both switches
PrvWidgetSwitch(w) ==
  CASE w = "ConversationWidgetTypeWeatherSingleDay" ->
         PrvHit("SegmentTypeWeatherSingleDayWidget")
    [] w = "ConversationWidgetTypeWeatherCurrent" ->
         PrvHit("SegmentTypeWeatherCurrentWidget")
    [] w = "ConversationWidgetTypeWeatherMultiDay" ->
         PrvHit("SegmentTypeWeatherMultiDayWidget")
    [] w = "ConversationWidgetTypeTimer" -> PrvHit("SegmentTypeTimerWidget")
    [] w = "ConversationWidgetTypeNumber" -> PrvHit("SegmentTypeNumberWidget")
    [] w = "ConversationWidgetTypeMap" /\ featureMaps -> PrvHit("SegmentTypeMapWidget")
    [] OTHER -> PrvFallThrough

\* prv_get_segment_type: the SegmentType returned, and whether control reached
\* the warning
PrvClassify(entry) ==
  LET t == conversation_entry_get_type(entry)
  IN CASE t = "EntryTypeDeleted" -> PrvHit("SegmentTypeNone")
       [] t \in {"EntryTypePrompt", "EntryTypeResponse"} -> PrvHit("SegmentTypeMessage")
       [] t \in {"EntryTypeThought", "EntryTypeError", "EntryTypeAction"} ->
            PrvHit("SegmentTypeInfo")
       [] t = "EntryTypeWidget" ->
            PrvWidgetSwitch(conversation_entry_get_widget(entry).type)
       [] OTHER -> PrvFallThrough

prv_get_segment_type(entry) == PrvClassify(entry).type

(* ------------------------- the child views ----------------------------- *)

\* the height a child view gives itself for the entry it renders
NaturalHeight(entry) == entry.content

\* <kind>_create(child_frame, entry): a view of that kind, placed at child_frame
\* and sized to its content; `arg` remembers the frame it was handed
ChildCreate(kind, child_frame, entry) ==
  [live |-> TRUE, kind |-> kind, arg |-> child_frame,
   frame |-> GRect(child_frame.origin.x, child_frame.origin.y,
                   child_frame.size.w, NaturalHeight(entry))]

\* <kind>_update(view): the view re-reads its entry and resizes itself
ChildUpdate(view, entry) ==
  [view EXCEPT !.frame.size.h = NaturalHeight(entry)]

\* layer_get_frame(handle).size: the view's size, or whatever lies behind a
\* handle that no constructor produced
GarbageSizes == {GSize(a, b) : a \in 0..MaxGarbage, b \in 0..MaxGarbage}
LayerGetFrameSizes(handle, view) ==
  IF handle = ChildHandle THEN {view.frame.size} ELSE GarbageSizes

(* -------------------------- the three switches ------------------------- *)

\* the child view each SegmentType stands for
ViewOf(type) ==
  CASE type = "SegmentTypeMessage" -> "MessageLayer"
    [] type = "SegmentTypeInfo" -> "InfoLayer"
    [] type = "SegmentTypeWeatherSingleDayWidget" -> "WeatherSingleDayWidget"
    [] type = "SegmentTypeWeatherCurrentWidget" -> "WeatherCurrentWidget"
    [] type = "SegmentTypeWeatherMultiDayWidget" -> "WeatherMultiDayWidget"
    [] type = "SegmentTypeTimerWidget" -> "TimerWidget"
    [] type = "SegmentTypeNumberWidget" -> "NumberWidget"
    [] type = "SegmentTypeMapWidget" -> "MapWidget"
    [] OTHER -> "NoChild"

\* switch (data->type) of segment_layer_create: whose constructor is called
CreateSwitch(type) == ViewOf(type)

\* switch (data->type) of segment_layer_update: whose update is called
UpdateSwitch(type) == ViewOf(type)

\* the destroy switch without its Timer case (mutant of DestroySwitch)
DestroySwitch_NoTimer(type) ==
  IF type = "SegmentTypeTimerWidget" THEN "NoChild" ELSE ViewOf(type)

\* switch (data->type) of segment_layer_destroy: whose destructor is called
DestroySwitch(type) == ViewOf(type)

(* ------------------------- segment_layer_create ------------------------ *)

\* child_frame never moved below the label (mutant of ChildFrame)
ChildFrame_NoInset(rect, assistant_label) == GRect(0, 0, rect.size.w, rect.size.h)

\* child_frame: the rect in the segment's own coordinates, below the label if any
ChildFrame(rect, assistant_label) ==
  IF assistant_label
    THEN GRect(0, NAME_HEIGHT, rect.size.w, rect.size.h - NAME_HEIGHT)
    ELSE GRect(0, 0, rect.size.w, rect.size.h)

\* the frame segment_layer_create gives the segment
CreateFrame(rect, child_size, has_label) ==
  GRect(rect.origin.x, rect.origin.y, child_size.w,
        child_size.h + (IF has_label THEN NAME_HEIGHT ELSE 0))

SegmentLayerCreateWith(i, rect, assistant_label) ==
  /\ ~seg[i].live
  /\ LET c == PrvClassify(entries[i])
         type == prv_get_segment_type(entries[i])
         child_frame == ChildFrame(rect, assistant_label)
         kind == CreateSwitch(type)
         constructed == kind # "NoChild"
         view == IF constructed THEN ChildCreate(kind, child_frame, entries[i])
                 ELSE views[i]
         handle == IF constructed THEN ChildHandle ELSE Unset
     IN /\ views' = [views EXCEPT ![i] = view]
        /\ labels' = [labels EXCEPT ![i] =
             IF assistant_label
               THEN [live |-> TRUE, text |-> "Bobby",
                     frame |-> GRect(5, 0, rect.size.w, NAME_HEIGHT)]
               ELSE NoLabel]
        /\ \E child_size \in LayerGetFrameSizes(handle, view) :
             seg' = [seg EXCEPT ![i] =
                [live |-> TRUE,
                 type |-> type,
                 warned |-> c.warning,
                 has_label |-> assistant_label,
                 layer |-> handle,
                 children |-> (IF assistant_label THEN <<"Label">> ELSE <<>>)
                                \o <<handle>>,
                 frame |-> CreateFrame(rect, child_size, assistant_label)]]
  /\ destroyLog' = [destroyLog EXCEPT ![i] = <<>>]
  /\ lastOp' = [lastOp EXCEPT ![i] = "create"]
  /\ UNCHANGED <<featureMaps, entries, faults>>

SegmentLayerCreate(i) ==
  \E rect \in RectSet, assistant_label \in BOOLEAN :
    SegmentLayerCreateWith(i, rect, assistant_label)

\* the same, by a container that lays every row out at the origin
SegmentLayerCreateAtZero(i) ==
  \E rect \in RectAtZero, assistant_label \in BOOLEAN :
    SegmentLayerCreateWith(i, rect, assistant_label)

(* ------------------------- segment_layer_update ------------------------ *)

\* update classifying the entry again (mutant of UpdateType)
UpdateType_Reclassify(d, entry) == prv_get_segment_type(entry)

\* the type tag segment_layer_update dispatches on
UpdateType(d, entry) == d.type

\* update placing the segment at the origin (mutant of UpdateFrame)
UpdateFrame_OriginZero(frame, child_size, has_label) ==
  GRect(0, 0, child_size.w, child_size.h + (IF has_label THEN NAME_HEIGHT ELSE 0))

\* the frame segment_layer_update gives the segment
UpdateFrame(frame, child_size, has_label) ==
  GRect(frame.origin.x, frame.origin.y, child_size.w,
        child_size.h + (IF has_label THEN NAME_HEIGHT ELSE 0))

SegmentLayerUpdate(i) ==
  /\ seg[i].live
  /\ LET d == seg[i]
         type == UpdateType(d, entries[i])
         kind == UpdateSwitch(type)
         called == kind # "NoChild"
         right == called /\ d.layer = ChildHandle /\ views[i].live
                    /\ views[i].kind = kind
         view == IF right THEN ChildUpdate(views[i], entries[i]) ELSE views[i]
     IN /\ views' = [views EXCEPT ![i] = view]
        /\ faults' = faults \cup (IF called /\ ~right THEN {"wrong_method"} ELSE {})
        /\ \E child_size \in LayerGetFrameSizes(d.layer, view) :
             seg' = [seg EXCEPT ![i].frame = UpdateFrame(d.frame, child_size, d.has_label)]
  /\ lastOp' = [lastOp EXCEPT ![i] = "update"]
  /\ UNCHANGED <<featureMaps, entries, labels, destroyLog>>

(* ------------------------ segment_layer_destroy ------------------------ *)

\* destroy releasing the layer before its children (mutant of SegmentLayerDestroySteps)
SegmentLayerDestroySteps_LayerFirst(d) ==
  <<"layer_get_data", "layer_destroy", "read type">>
    \o (IF DestroySwitch(d.type) # "NoChild"
          THEN <<"read child", "destroy child">> ELSE <<>>)
    \o <<"read label">>
    \o (IF d.has_label THEN <<"destroy label">> ELSE <<>>)

\* what segment_layer_destroy does with the segment's data, in program order
SegmentLayerDestroySteps(d) ==
  <<"layer_get_data", "read type">>
    \o (IF DestroySwitch(d.type) # "NoChild"
          THEN <<"read child", "destroy child">> ELSE <<>>)
    \o <<"read label">>
    \o (IF d.has_label THEN <<"destroy label">> ELSE <<>>)
    \o <<"layer_destroy">>

Count(steps, what) == Cardinality({k \in 1..Len(steps) : steps[k] = what})
FirstAt(steps, what) ==
  IF Count(steps, what) = 0 THEN 0
  ELSE CHOOSE k \in 1..Len(steps) :
         steps[k] = what /\ \A j \in 1..(k - 1) : steps[j] # what

\* the data lives inside the layer: a read after layer_destroy reads freed memory
ReadsAfterRelease(steps) ==
  \E k \in 1..Len(steps) :
    /\ steps[k] \in {"layer_get_data", "read type", "read child", "read label"}
    /\ \E j \in 1..(k - 1) : steps[j] = "layer_destroy"

SegmentLayerDestroy(i) ==
  /\ seg[i].live
  /\ LET d == seg[i]
         steps == SegmentLayerDestroySteps(d)
         kind == DestroySwitch(d.type)
         nChild == Count(steps, "destroy child")
         nLabel == Count(steps, "destroy label")
         nLayer == Count(steps, "layer_destroy")
         right == d.layer = ChildHandle /\ views[i].live /\ views[i].kind = kind
     IN /\ views' = [views EXCEPT ![i] = IF nChild > 0 /\ right THEN NoView ELSE @]
        /\ labels' = [labels EXCEPT ![i] = IF nLabel > 0 THEN NoLabel ELSE @]
        /\ seg' = [seg EXCEPT ![i] = IF nLayer > 0 THEN NoSeg ELSE @]
        /\ faults' = faults
             \cup (IF nChild > 0 /\ ~right THEN {"wrong_method"} ELSE {})
             \cup (IF nChild > 1 \/ nLayer > 1 \/ nLabel > 1
                      \/ (nLabel > 0 /\ ~labels[i].live)
                   THEN {"double_release"} ELSE {})
             \cup (IF ReadsAfterRelease(steps) THEN {"read_after_release"} ELSE {})
        /\ destroyLog' = [destroyLog EXCEPT ![i] = steps]
  /\ lastOp' = [lastOp EXCEPT ![i] = "destroy"]
  /\ UNCHANGED <<featureMaps, entries>>

(* --------------------- segment_layer_get_entry ------------------------- *)

segment_layer_get_entry(i) == entries[i]

(* ------------------------------ environment ---------------------------- *)

\* the data model rewrites the content of an entry (text streamed in, a timer ticking)
EntryContentChange(i) ==
  /\ \E c \in (1..MaxContent) \ {entries[i].content} :
       entries' = [entries EXCEPT ![i].content = c]
  /\ lastOp' = [lastOp EXCEPT ![i] = IF seg[i].live THEN "entry" ELSE @]
  /\ UNCHANGED <<featureMaps, seg, views, labels, faults, destroyLog>>

\* the data model changes what an entry is, to one of `kinds`
EntryTypeChangeTo(i, kinds) ==
  /\ \E k \in kinds \ {[type |-> entries[i].type, widget |-> entries[i].widget]} :
       entries' = [entries EXCEPT ![i].type = k.type, ![i].widget = k.widget]
  /\ lastOp' = [lastOp EXCEPT ![i] = IF seg[i].live THEN "entry" ELSE @]
  /\ UNCHANGED <<featureMaps, seg, views, labels, faults, destroyLog>>

\* any entry becomes any other
EntryTypeChange(i) == EntryTypeChangeTo(i, EntryKinds)

\* a row's entry is deleted, or replaced by a response or by a timer widget
ReplacedKinds ==
  {[type |-> "EntryTypeDeleted", widget |-> NoWidget],
   [type |-> "EntryTypeResponse", widget |-> NoWidget],
   [type |-> "EntryTypeWidget", widget |-> "ConversationWidgetTypeTimer"]}
EntryReplaced(i) == EntryTypeChangeTo(i, ReplacedKinds)

\* the container's layout pass moves a segment: layer_set_frame with a new origin
ContainerSetOrigin(i) ==
  /\ seg[i].live
  /\ \E o \in Origins \ {seg[i].frame.origin} :
       seg' = [seg EXCEPT ![i].frame.origin = o]
  /\ lastOp' = [lastOp EXCEPT ![i] = "move"]
  /\ UNCHANGED <<featureMaps, entries, views, labels, faults, destroyLog>>

(* ---------------------------- specifications --------------------------- *)

InitCommon ==
  /\ featureMaps \in BOOLEAN
  /\ seg = [i \in Slots |-> NoSeg]
  /\ views = [i \in Slots |-> NoView]
  /\ labels = [i \in Slots |-> NoLabel]
  /\ faults = {}
  /\ destroyLog = [i \in Slots |-> <<>>]
  /\ lastOp = [i \in Slots |-> "none"]

\* the entry of a row the single-segment specification leaves alone
UnusedEntry == [type |-> "EntryTypeDeleted", widget |-> NoWidget, content |-> 1]

\* one segment, every entry, every rect
Init ==
  /\ InitCommon
  /\ \E e \in EntrySet :
       entries = [i \in Slots |-> IF i \in FirstSlot THEN e ELSE UnusedEntry]

Next ==
  \E i \in FirstSlot :
    \/ SegmentLayerCreate(i)
    \/ SegmentLayerUpdate(i)
    \/ SegmentLayerDestroy(i)
    \/ EntryContentChange(i)
    \/ EntryTypeChange(i)
    \/ ContainerSetOrigin(i)

Spec == Init /\ [][Next]_vars

\* every row of the container, each with its own entry, laid out at the origin,
\* in the build that has every variant
InitRows ==
  /\ InitCommon
  /\ featureMaps
  /\ entries \in [Slots -> {e \in EntrySet : e.content = 1}]

NextRows ==
  \E i \in Slots :
    \/ SegmentLayerCreateAtZero(i)
    \/ SegmentLayerUpdate(i)
    \/ SegmentLayerDestroy(i)
    \/ EntryReplaced(i)

SpecRows == InitRows /\ [][NextRows]_vars

(* ------------------------------- claims -------------------------------- *)

Created(i) == ~seg[i].live /\ seg'[i].live

KnownWidgets ==
  {"ConversationWidgetTypeWeatherSingleDay", "ConversationWidgetTypeWeatherCurrent",
   "ConversationWidgetTypeWeatherMultiDay", "ConversationWidgetTypeTimer",
   "ConversationWidgetTypeNumber"}
    \cup (IF featureMaps THEN {"ConversationWidgetTypeMap"} ELSE {})

Recognised(e) ==
  \/ e.type \in {"EntryTypeDeleted", "EntryTypePrompt", "EntryTypeResponse",
                 "EntryTypeThought", "EntryTypeError", "EntryTypeAction"}
  \/ e.type = "EntryTypeWidget" /\ e.widget \in KnownWidgets

\* the variant the classification table gives a recognised entry
TableVariant(e) ==
  CASE e.type = "EntryTypeDeleted" -> "SegmentTypeNone"
    [] e.type \in {"EntryTypePrompt", "EntryTypeResponse"} -> "SegmentTypeMessage"
    [] e.type \in {"EntryTypeThought", "EntryTypeError", "EntryTypeAction"} ->
         "SegmentTypeInfo"
    [] e.widget = "ConversationWidgetTypeWeatherSingleDay" ->
         "SegmentTypeWeatherSingleDayWidget"
    [] e.widget = "ConversationWidgetTypeWeatherCurrent" ->
         "SegmentTypeWeatherCurrentWidget"
    [] e.widget = "ConversationWidgetTypeWeatherMultiDay" ->
         "SegmentTypeWeatherMultiDayWidget"
    [] e.widget = "ConversationWidgetTypeTimer" -> "SegmentTypeTimerWidget"
    [] e.widget = "ConversationWidgetTypeNumber" -> "SegmentTypeNumberWidget"
    [] e.widget = "ConversationWidgetTypeMap" -> "SegmentTypeMapWidget"

SegmentTypes ==
  {"SegmentTypeNone", "SegmentTypeMessage", "SegmentTypeInfo",
   "SegmentTypeWeatherSingleDayWidget", "SegmentTypeWeatherCurrentWidget",
   "SegmentTypeWeatherMultiDayWidget", "SegmentTypeTimerWidget",
   "SegmentTypeNumberWidget"}
    \cup (IF featureMaps THEN {"SegmentTypeMapWidget"} ELSE {})

LabelHeight(i) == IF seg[i].has_label THEN NAME_HEIGHT ELSE 0

\* C1: whenever segment_layer_create builds a segment for a recognised entry, the
\* segment's type is the one the table gives that entry (Deleted -> None; Prompt,
\* Response -> Message; Thought, Error, Action -> Info; each widget sub-type -> its
\* own widget variant), and no recognised widget entry of another sub-type is
\* classified to the same variant.
C1_Classification ==
  [][\A i \in Slots :
       (Created(i) /\ Recognised(entries[i])) =>
         /\ seg'[i].type = TableVariant(entries[i])
         /\ entries[i].type = "EntryTypeWidget" =>
              \A e \in EntrySet :
                (Recognised(e) /\ e.type = "EntryTypeWidget"
                   /\ e.widget # entries[i].widget)
                  => prv_get_segment_type(e) # seg'[i].type]_vars

\* a segment stands for a map widget, built from a map entry
C1_Witness ==
  /\ seg[1].live /\ lastOp[1] = "create"
  /\ seg[1].type = "SegmentTypeMapWidget"
  /\ entries[1].widget = "ConversationWidgetTypeMap"

ChildHeight(i) == IF views[i].live THEN views[i].frame.size.h ELSE 0

\* C3: right after segment_layer_create and after every segment_layer_update, the
\* segment's frame height is the child view's height (0 when there is no child
\* view) plus NAME_HEIGHT if the segment has a label, plus 0 otherwise.
C3_FrameComposition ==
  \A i \in Slots :
    (seg[i].live /\ lastOp[i] \in {"create", "update"}) =>
      seg[i].frame.size.h = ChildHeight(i) + LabelHeight(i)

LiveResources ==
  Cardinality({i \in Slots : seg[i].live})
    + Cardinality({i \in Slots : views[i].live})
    + Cardinality({i \in Slots : labels[i].live})

\* C4: a live segment owns a child view exactly when its type is not None, of the
\* kind of its type, and a label view exactly when it was created with one; a
\* destroyed segment leaves neither behind; destroy releases the child at most
\* once, the label at most once and the layer once, never through the wrong
\* destructor; and when every segment is destroyed no view or layer is live.
C4_Lifecycle ==
  /\ \A i \in Slots :
       seg[i].live =>
         /\ views[i].live <=> seg[i].type # "SegmentTypeNone"
         /\ views[i].live => views[i].kind = ViewOf(seg[i].type)
         /\ labels[i].live <=> seg[i].has_label
  /\ \A i \in Slots : ~seg[i].live => ~views[i].live /\ ~labels[i].live
  /\ \A i \in Slots :
       destroyLog[i] # <<>> =>
         /\ Count(destroyLog[i], "layer_destroy") = 1
         /\ Count(destroyLog[i], "destroy child") <= 1
         /\ Count(destroyLog[i], "destroy label") <= 1
  /\ faults \cap {"double_release", "wrong_method"} = {}
  /\ (\A i \in Slots : ~seg[i].live) => LiveResources = 0

\* both rows were created and destroyed: one with a child view and a label, the
\* other a None segment without a label
C4_Witness ==
  /\ \A i \in Slots : ~seg[i].live /\ lastOp[i] = "destroy"
  /\ Count(destroyLog[1], "destroy child") = 1
  /\ Count(destroyLog[1], "destroy label") = 1
  /\ Count(destroyLog[2], "destroy child") = 0
  /\ Count(destroyLog[2], "destroy label") = 0
  /\ LiveResources = 0

\* C5: while a segment lives its type tag never changes, whatever happens to its
\* entry; its child view stays of the kind of that tag; and no update or destroy
\* calls a method of another kind on it.
C5_TagImmutable ==
  [][/\ \A i \in Slots :
          (seg[i].live /\ seg'[i].live) =>
            /\ seg'[i].type = seg[i].type
            /\ views'[i].live => views'[i].kind = ViewOf(seg[i].type)
     /\ "wrong_method" \notin faults']_vars

\* a message segment was updated after its entry had become a timer widget
C5_Witness ==
  /\ seg[1].live /\ lastOp[1] = "update"
  /\ seg[1].type = "SegmentTypeMessage"
  /\ prv_get_segment_type(entries[1]) = "SegmentTypeTimerWidget"
  /\ views[1].kind = "MessageLayer"

\* C6: a segment of type None has no child view, has nothing but (at most) the
\* label attached to it, and its frame height is 0 without a label and
\* NAME_HEIGHT with one, after create and after every update.
C6_EmptySegment ==
  \A i \in Slots :
    (seg[i].live /\ seg[i].type = "SegmentTypeNone") =>
      /\ ~views[i].live
      /\ \A k \in 1..Len(seg[i].children) : seg[i].children[k] = "Label"
      /\ seg[i].frame.size.h = LabelHeight(i)

\* the rect inset from the top by the label height, in the rect's own coordinates
InsetFromTop(rect, inset) ==
  GRect(rect.origin.x, rect.origin.y + inset, rect.size.w, rect.size.h - inset)

\* C7 as claimed: the child constructor receives the full rect without a label,
\* and the rect inset from the top by NAME_HEIGHT with one.
C7_ChildFrameIsRect ==
  [][\A i \in Slots : (Created(i) /\ views'[i].live) =>
       \A rect \in RectSet : \A assistant_label \in BOOLEAN :
         SegmentLayerCreateWith(i, rect, assistant_label) =>
           views'[i].arg =
             InsetFromTop(rect, IF assistant_label THEN NAME_HEIGHT ELSE 0)]_vars

\* C7 amended: the child constructor receives a frame in the segment's own
\* coordinates: the rect's size at origin (0, 0) without a label, and that frame
\* inset from the top by NAME_HEIGHT with one; the rect's origin is not part of it.
C7_ChildFrameIsLocal ==
  [][\A i \in Slots : (Created(i) /\ views'[i].live) =>
       \A rect \in RectSet : \A assistant_label \in BOOLEAN :
         SegmentLayerCreateWith(i, rect, assistant_label) =>
           views'[i].arg =
             InsetFromTop(GRect(0, 0, rect.size.w, rect.size.h),
                          IF assistant_label THEN NAME_HEIGHT ELSE 0)]_vars

\* a labelled segment with a child view was just created at a non-zero origin
C7_Witness ==
  /\ seg[1].live /\ lastOp[1] = "create"
  /\ seg[1].has_label /\ views[1].live
  /\ seg[1].frame.origin = GPoint(MaxOrigin, MaxOrigin)
  /\ views[1].arg.origin = GPoint(0, NAME_HEIGHT)

\* C8: segment_layer_create returns a segment whose frame has the rect's origin,
\* and segment_layer_update leaves the origin of the segment's frame as it found it.
C8_OriginPreserved ==
  [][\A i \in Slots :
       /\ Created(i) =>
            \A rect \in RectSet : \A assistant_label \in BOOLEAN :
              SegmentLayerCreateWith(i, rect, assistant_label) =>
                seg'[i].frame.origin = rect.origin
       /\ (lastOp'[i] = "update" /\ SegmentLayerUpdate(i)) =>
            seg'[i].frame.origin = seg[i].frame.origin]_vars

\* a segment was updated while at a non-zero origin, its size following the child
C8_Witness ==
  /\ seg[1].live /\ lastOp[1] = "update"
  /\ seg[1].frame.origin = GPoint(MaxOrigin, MaxOrigin)
  /\ views[1].live /\ seg[1].frame.size.h = MaxContent + LabelHeight(1)

\* C9: an update that directly follows an update of the same segment, the entry
\* not having changed in between, leaves the segment's frame as the first left it.
C9_UpdateIdempotent ==
  [][\A i \in Slots :
       (lastOp[i] = "update" /\ SegmentLayerUpdate(i)) =>
         seg'[i].frame = seg[i].frame]_vars

DataReads == {"layer_get_data", "read type", "read child", "read label"}

\* C10: within one segment_layer_destroy the child view is destroyed before the
\* label view, both before the layer is released, the layer is released last,
\* and nothing of the segment's data is read after that.
C10_DestroyOrder ==
  /\ "read_after_release" \notin faults
  /\ \A i \in Slots :
       LET log == destroyLog[i]
           at(what) == FirstAt(log, what)
       IN log # <<>> =>
            /\ log[Len(log)] = "layer_destroy"
            /\ at("layer_destroy") = Len(log)
            /\ at("destroy child") > 0 => at("destroy child") < at("layer_destroy")
            /\ at("destroy label") > 0 => at("destroy label") < at("layer_destroy")
            /\ (at("destroy child") > 0 /\ at("destroy label") > 0) =>
                 at("destroy child") < at("destroy label")
            /\ \A k \in 1..Len(log) : log[k] \in DataReads => k < at("layer_destroy")

\* a segment with a child view and a label was destroyed
C10_Witness ==
  /\ ~seg[1].live /\ lastOp[1] = "destroy"
  /\ Count(destroyLog[1], "destroy child") = 1
  /\ Count(destroyLog[1], "destroy label") = 1

====
